---------------------------- MODULE Spec2Model ----------------------------
(***************************************************************************)
(* A model of the kvs storage engine (src/src/lib.rs): the command log,   *)
(* the in-memory index kvs, recovery by replay (open) and the rewrite of  *)
(* the log (rebuild_log).                                                  *)
(*                                                                         *)
(* Files are sequences of bytes; a byte is a one-character string, and    *)
(* NUL stands for the zero byte a file system returns for a hole.  The     *)
(* store keeps ONE file handle (KvStore.log) for its whole life.  The      *)
(* handle names an inode, not a path, so after fs::rename installs a new  *)
(* file at the log path the handle still reads and writes the replaced,   *)
(* now unlinked file.  The handle also has a cursor (log_pos): read,      *)
(* seek and write_all move it, write_at (pwrite) does not.                *)
(*                                                                         *)
(* Under Spec every system call succeeds; SpecIO adds the failures of    *)
(* rebuild_log, and SpecReplay applies open to a given log.  A store      *)
(* always has a log (the log: None of Default's fallback is not           *)
(* modelled), and the store never writes a GetData record.                *)
(***************************************************************************)
EXTENDS Integers, Sequences, FiniteSets, TLC

(***************************************************************************)
(* Bounds of the model.                                                    *)
(***************************************************************************)
MaxSteps == 4
\* records in a log that open is given
MaxRecords == 3

\* One key of 1 byte and one of 14: the Remove record of the long key is as
\* long as the Set record of the short key with a 1-byte value (36 bytes).
Keys == {<<"a">>, <<"b", "b", "b", "b", "b", "b", "b", "b", "b", "b", "b", "b", "b", "b">>}
Values == {<<"1">>, <<"2">>, <<"3", "3">>}

NUL == "NUL"
NL == "\n"
QUOTE == "\""

(***************************************************************************)
(* Command encoding: serde_json's externally tagged form of OptData, as   *)
(* to_string writes it.  Keys and values of the model hold no quote,      *)
(* backslash or control character, so nothing is escaped.                 *)
(***************************************************************************)
SetTag == <<"S", "e", "t", "D", "a", "t", "a">>
RmTag == <<"R", "m", "D", "a", "t", "a">>
GetTag == <<"G", "e", "t", "D", "a", "t", "a">>
KeyName == <<"k", "e", "y">>
ValueName == <<"v", "a", "l", "u", "e">>

Quoted(s) == <<QUOTE>> \o s \o <<QUOTE>>

\* serde_json::to_string(&OptData::SetData{key, value}) followed by push('\n')
EncodeSet(k, v) ==
    <<"{">> \o Quoted(SetTag) \o <<":", "{">> \o Quoted(KeyName) \o <<":">>
      \o Quoted(k) \o <<",">> \o Quoted(ValueName) \o <<":">> \o Quoted(v)
      \o <<"}", "}">> \o <<NL>>

\* serde_json::to_string(&OptData::RmData{key}) followed by push('\n')
EncodeRm(k) ==
    <<"{">> \o Quoted(RmTag) \o <<":", "{">> \o Quoted(KeyName) \o <<":">>
      \o Quoted(k) \o <<"}", "}">> \o <<NL>>

(***************************************************************************)
(* Decoding: serde_json::from_str.  The text is cut into JSON tokens      *)
(* (white space between tokens is skipped, a string may hold no control   *)
(* character or backslash escape here), and the tokens must spell one     *)
(* SetData, RmData or GetData value and nothing more.  Any other text is a *)
(* decode error: an empty text, a truncated record, two records, a hole.  *)
(***************************************************************************)
Punct == {"{", "}", ":", ","}
Tok(t, v) == [t |-> t, v |-> v]
P(c) == Tok("p", <<c>>)
S(s) == Tok("s", s)
ErrTok == Tok("e", <<>>)

\* index of the first quote of s at or after i, 0 when there is none
CloseQuote(s, i) ==
    LET qs == {j \in i..Len(s) : s[j] = QUOTE}
    IN  IF qs = {} THEN 0 ELSE CHOOSE j \in qs : \A m \in qs : j <= m

RECURSIVE Lex(_, _)
Lex(s, i) ==
    IF i > Len(s) THEN <<>>
    ELSE IF s[i] = NL THEN Lex(s, i + 1)
    ELSE IF s[i] \in Punct THEN <<P(s[i])>> \o Lex(s, i + 1)
    ELSE IF s[i] = QUOTE
         THEN LET j == CloseQuote(s, i + 1)
              IN  IF j = 0 THEN <<ErrTok>>
                  ELSE IF \E m \in (i + 1)..(j - 1) : s[m] \in {NL, NUL}
                       THEN <<ErrTok>>
                       ELSE <<S(SubSeq(s, i + 1, j - 1))>> \o Lex(s, j + 1)
    ELSE <<ErrTok>>

DecodeErr == [tag |-> "Err", key |-> <<>>, value |-> <<>>]

Decode(s) ==
    LET t == Lex(s, 1)
        isStr(i) == t[i].t = "s"
    IN  IF /\ Len(t) = 13
           /\ SubSeq(t, 1, 4) = <<P("{"), S(SetTag), P(":"), P("{")>>
           /\ t[6] = P(":") /\ t[8] = P(",") /\ t[10] = P(":")
           /\ SubSeq(t, 12, 13) = <<P("}"), P("}")>>
           /\ isStr(7) /\ isStr(11)
           /\ {t[5], t[9]} = {S(KeyName), S(ValueName)}
        THEN IF t[5] = S(KeyName)
             THEN [tag |-> "Set", key |-> t[7].v, value |-> t[11].v]
             ELSE [tag |-> "Set", key |-> t[11].v, value |-> t[7].v]
        ELSE IF /\ Len(t) = 9
                /\ SubSeq(t, 1, 6) =
                     <<P("{"), S(RmTag), P(":"), P("{"), S(KeyName), P(":")>>
                /\ isStr(7)
                /\ SubSeq(t, 8, 9) = <<P("}"), P("}")>>
        THEN [tag |-> "Rm", key |-> t[7].v, value |-> <<>>]
        ELSE IF /\ Len(t) = 9
                /\ SubSeq(t, 1, 6) =
                     <<P("{"), S(GetTag), P(":"), P("{"), S(KeyName), P(":")>>
                /\ isStr(7)
                /\ SubSeq(t, 8, 9) = <<P("}"), P("}")>>
        THEN [tag |-> "Get", key |-> t[7].v, value |-> <<>>]
        ELSE DecodeErr

(***************************************************************************)
(* Positional file access.                                                 *)
(***************************************************************************)
Max(x, y) == IF x >= y THEN x ELSE y
Min(x, y) == IF x <= y THEN x ELSE y

\* write_at / write at a cursor: bytes land at offset off (0-based); a write
\* past the end of the file leaves a hole that reads as zero bytes
WriteAt(f, off, data) ==
    IF data = <<>> THEN f ELSE
    [i \in 1..Max(Len(f), off + Len(data)) |->
        IF i > off /\ i <= off + Len(data) THEN data[i - off]
        ELSE IF i <= Len(f) THEN f[i]
        ELSE NUL]

\* seek(off) then take(len).read_to_string: at most len bytes, fewer at the
\* end of the file, none past it
ReadAt(f, off, len) ==
    IF off >= Len(f) THEN <<>> ELSE SubSeq(f, off + 1, Min(Len(f), off + len))

(***************************************************************************)
(* The index: a function from keys to OffsetLen records.                   *)
(***************************************************************************)
OffsetLen(offset, len) == [offset |-> offset, len |-> len]
EmptyIndex == <<>>

\* HashMap::insert
Insert(idx, k, loc) ==
    [x \in DOMAIN idx \cup {k} |-> IF x = k THEN loc ELSE idx[x]]

\* a remove that forgets the index entry
DeleteNothing(idx, k) == idx

\* HashMap::remove
Delete(idx, k) == [x \in DOMAIN idx \ {k} |-> idx[x]]

\* HashMap::entry(k).or_insert(loc): an existing entry is kept as it is
OrInsert(idx, k, loc) == IF k \in DOMAIN idx THEN idx ELSE Insert(idx, k, loc)

(***************************************************************************)
(* Results of the operations (the Ok / Err values the methods return).     *)
(***************************************************************************)
Res(tag, value) == [tag |-> tag, value |-> value]
OkUnit == Res("Ok", <<>>)
Found(v) == Res("Some", v)
NotFound == Res("None", <<>>)
Failed == Res("Err", <<>>)
KeyNotFound == Res("KeyNotFound", <<>>)

(***************************************************************************)
(* Recovery: the loop of open over BufReader::lines.                       *)
(* offset is the running cursor; a line is the bytes up to the next        *)
(* newline (or to the end of the file for a last line with no newline),   *)
(* and the cursor always advances by line.len() + 1.                       *)
(***************************************************************************)
LineEnd(f, offset) ==
    LET nls == {j \in (offset + 1)..Len(f) : f[j] = NL}
    IN  IF nls = {} THEN Len(f) + 1
        ELSE CHOOSE j \in nls : \A m \in nls : j <= m

\* a record length that leaves the terminator out
RecordLenNoTerminator(line) == Len(line)

\* lines 254 and 264: line.len() + 1, the line and its newline
RecordLen(line) == Len(line) + 1

RECURSIVE Replay(_, _, _)
Replay(f, offset, idx) ==
    IF offset >= Len(f)
    THEN [ok |-> TRUE, kvs |-> idx, offset |-> offset]
    ELSE LET line == SubSeq(f, offset + 1, LineEnd(f, offset) - 1)
             d == Decode(line)
             len == RecordLen(line)
         IN  IF d.tag = "Err"
             THEN [ok |-> FALSE, kvs |-> EmptyIndex, offset |-> offset]
             ELSE Replay(f, offset + len,
                         IF d.tag = "Set"
                         THEN Insert(idx, d.key, OffsetLen(offset, len))
                         ELSE IF d.tag = "Rm"
                         THEN Delete(idx, d.key)
                         ELSE idx)

(***************************************************************************)
(* State.                                                                  *)
(*   kvs, log_off   KvStore's fields                                       *)
(*   log            KvStore.log: "none" when no store is open, else which  *)
(*                  file the handle names: "path" (the file at log_name)   *)
(*                  or "orphan" (a file a rename has replaced at log_name) *)
(*   log_pos        the handle's cursor                                    *)
(*   disk           the bytes of the file at log_name (kvs.log)            *)
(*   orphan         the bytes of the replaced file the handle still names  *)
(*   swp            the temporary file kvs.log.swp: if it exists, its bytes *)
(* History variables, read only by the properties:                         *)
(*   last           the last operation: its arguments, its result, the     *)
(*                  path set took                                          *)
(*   expect         per key, what get should return by the operations      *)
(*                  that succeeded (taken from the index at open)          *)
(*   run            per key, how many set(k, .) calls came last in a row   *)
(*   removed        per key, a remove(k) succeeded and no set(k, .) since  *)
(*   session_ok     every set and remove of this session succeeded         *)
(*   snap           what the last open saw                                 *)
(*   reopens        how many open calls came since the last set or remove  *)
(*   before         per key, what get would have returned just before the  *)
(*                  last operation                                         *)
(*   carried        what the last closed session promised: expect, and if  *)
(*                  all its set and remove calls succeeded                 *)
(*   steps          number of set, get, remove and open calls so far       *)
(***************************************************************************)
VARIABLES kvs, log, log_off, log_pos, disk, orphan, swp,
          last, expect, run, removed, session_ok, snap, reopens, before, carried, steps

vars == <<kvs, log, log_off, log_pos, disk, orphan, swp,
          last, expect, run, removed, session_ok, snap, reopens, before, carried, steps>>

\* the bytes of the file the handle names
LogFile == IF log = "path" THEN disk ELSE orphan

Op(op, key, value, res, path) ==
    [op |-> op, key |-> key, value |-> value, res |-> res, path |-> path]

(***************************************************************************)
(* get                                                                     *)
(***************************************************************************)
\* lines 175-185: what the decoded record makes of the result
GetResult(d) ==
    IF d.tag = "Set" THEN Found(d.value)
    ELSE IF d.tag = "Err" THEN Failed
    ELSE NotFound

\* the result of get(k) and where it leaves the handle's cursor
GetOutcome(idx, f, pos, k) ==
    IF k \notin DOMAIN idx THEN [res |-> NotFound, pos |-> pos]
    ELSE LET buf == ReadAt(f, idx[k].offset, idx[k].len)
         IN  [res |-> GetResult(Decode(buf)), pos |-> idx[k].offset + Len(buf)]

\* what get(k) would return in the current state
Visible(k) ==
    IF log = "none" THEN Failed ELSE GetOutcome(kvs, LogFile, log_pos, k).res

Get(k) ==
    /\ log # "none"
    /\ steps < MaxSteps
    /\ LET o == GetOutcome(kvs, LogFile, log_pos, k)
       IN  /\ log_pos' = o.pos
           /\ last' = Op("get", k, <<>>, o.res, "-")
    /\ run' = [x \in Keys |-> 0]
    /\ steps' = steps + 1
    /\ before' = [x \in Keys |-> Visible(x)]
    /\ UNCHANGED <<kvs, log, log_off, disk, orphan, swp,
                   expect, removed, session_ok, snap, reopens, carried>>

(***************************************************************************)
(* remove                                                                  *)
(***************************************************************************)
\* a remove that reports success for a missing key
RemoveResultAlwaysOk(idx, k) == OkUnit

\* lines 150-153
RemoveResult(idx, k) == IF k \in DOMAIN idx THEN OkUnit ELSE KeyNotFound

\* lines 142-149: write_all writes at the handle's cursor
RemoveWrite(f, pos, data) == WriteAt(f, pos, data)

Remove(k) ==
    /\ log # "none"
    /\ steps < MaxSteps
    /\ LET data == EncodeRm(k)
           f == RemoveWrite(LogFile, log_pos, data)
           res == RemoveResult(kvs, k)
       IN  /\ IF log = "path"
              THEN disk' = f /\ orphan' = orphan
              ELSE orphan' = f /\ disk' = disk
           /\ log_pos' = log_pos + Len(data)
           /\ log_off' = log_off + Len(data)
           /\ kvs' = Delete(kvs, k)
           /\ last' = Op("remove", k, <<>>, res, "-")
           /\ IF res = OkUnit
              THEN /\ expect' = [expect EXCEPT ![k] = NotFound]
                   /\ removed' = [removed EXCEPT ![k] = TRUE]
                   /\ session_ok' = session_ok
              ELSE /\ UNCHANGED <<expect, removed>>
                   /\ session_ok' = FALSE
    /\ run' = [x \in Keys |-> 0]
    /\ reopens' = 0
    /\ steps' = steps + 1
    /\ before' = [x \in Keys |-> Visible(x)]
    /\ UNCHANGED <<log, swp, snap, carried>>

(***************************************************************************)
(* rebuild_log                                                             *)
(***************************************************************************)
\* lines 194-195: the entries in ascending order of offset.  The sort is
\* stable over the HashMap's iteration order, so entries of equal offset may
\* come in any order.
SortedOrders(idx) ==
    LET n == Cardinality(DOMAIN idx)
    IN  {o \in [1..n -> DOMAIN idx] :
            /\ \A i, j \in 1..n : i # j => o[i] # o[j]
            /\ \A i, j \in 1..n : i < j => idx[o[i]].offset <= idx[o[j]].offset}

\* lines 210-224: one turn of the loop, for the entry of key.  st holds the
\* index, the temporary file, new_file_offset, diff and the cursor of the
\* handle the old records are read through.  (new_file_offset and diff are
\* i32 in the code; no value of the model leaves that range or goes negative.)
RebuildStep(st, key, old, offset, data) ==
    LET value == st.kvs[key]
        match == offset = value.offset
        diff == IF match /\ Len(data) # value.len
                THEN Len(data) - value.len ELSE st.diff
        buf == IF match THEN data ELSE ReadAt(old, value.offset, value.len)
        new_file_offset ==
            IF match THEN st.new_file_offset ELSE value.offset + diff
    IN  [kvs |-> [st.kvs EXCEPT ![key] = OffsetLen(new_file_offset, Len(buf))],
         new_file |-> WriteAt(st.new_file, new_file_offset, buf),
         new_file_offset |-> new_file_offset + Len(buf),
         diff |-> diff,
         pos |-> IF match THEN st.pos ELSE value.offset + Len(buf)]

RECURSIVE RebuildLoop(_, _, _, _, _, _)
RebuildLoop(order, i, st, old, offset, data) ==
    IF i > Len(order) THEN st
    ELSE RebuildLoop(order, i + 1, RebuildStep(st, order[i], old, offset, data),
                     old, offset, data)

\* no temporary file in the directory
NoSwp == [exists |-> FALSE, bytes |-> <<>>]

\* lines 197-203: OpenOptions create, read, write on kvs.log.swp: a new file
\* is empty, an existing one keeps its bytes (it is not truncated)
OpenSwp(tmp) == IF tmp.exists THEN tmp.bytes ELSE <<>>

\* lines 197-225: the temporary file is opened and the loop fills it; turns
\* is the number of turns of the loop that are made (all of them, unless an
\* I/O error ends the pass early)
RebuildLog(idx, order, turns, tmp, old, pos, offset, data) ==
    RebuildLoop(SubSeq(order, 1, turns), 1,
                [kvs |-> idx, new_file |-> OpenSwp(tmp), new_file_offset |-> 0,
                 diff |-> 0, pos |-> pos],
                old, offset, data)

(***************************************************************************)
(* set                                                                     *)
(***************************************************************************)
\* lines 95-101: the offset the record goes to
SetOffset(idx, off, k) == IF k \in DOMAIN idx THEN idx[k].offset ELSE off

\* a set that hands back what the key held
SetReturnPrev(prev) == prev

\* line 121: set returns Ok(()); prev is what get(k) returned before the call
SetReturn(prev) == OkUnit

\* lines 114-116
SetLogOff(off, offset, len) == IF offset + len > off THEN offset + len ELSE off

Set(k, v) ==
    /\ log # "none"
    /\ steps < MaxSteps
    /\ LET data == EncodeSet(k, v)
           offset == SetOffset(kvs, log_off, k)
           idx == OrInsert(kvs, k, OffsetLen(offset, Len(data)))
           res == SetReturn(Visible(k))
       IN  IF idx[k].len # Len(data)
           THEN \E order \in SortedOrders(idx) :
                  LET st == RebuildLog(idx, order, Len(order), swp,
                                       LogFile, log_pos, offset, data)
                  IN  /\ kvs' = st.kvs
                      /\ disk' = st.new_file
                      /\ swp' = NoSwp
                      /\ orphan' = LogFile
                      /\ log' = "orphan"
                      /\ log_pos' = st.pos
                      /\ log_off' = log_off
                      /\ last' = Op("set", k, v, res, "compact")
           ELSE /\ kvs' = idx
                /\ IF log = "path"
                   THEN disk' = WriteAt(disk, offset, data) /\ orphan' = orphan
                   ELSE orphan' = WriteAt(orphan, offset, data) /\ disk' = disk
                /\ log_off' = SetLogOff(log_off, offset, Len(data))
                /\ last' = Op("set", k, v, res,
                              IF k \in DOMAIN kvs THEN "inplace" ELSE "append")
                /\ UNCHANGED <<log, log_pos, swp>>
    /\ expect' = [expect EXCEPT ![k] = Found(v)]
    /\ run' = [x \in Keys |-> IF x = k THEN Min(2, run[k] + 1) ELSE 0]
    /\ removed' = [removed EXCEPT ![k] = FALSE]
    /\ reopens' = 0
    /\ steps' = steps + 1
    /\ before' = [x \in Keys |-> Visible(x)]
    /\ UNCHANGED <<session_ok, snap, carried>>

(***************************************************************************)
(* A set whose compaction ends in an I/O error (the ? operators of         *)
(* rebuild_log, lines 203, 217, 218, 221, 227).  Either the temporary file *)
(* cannot be opened, and nothing has changed; or it is opened, turns turns *)
(* of the loop are made, and then a read or a write of the next turn, or   *)
(* the rename after the last, fails.  The entries of the turns made keep   *)
(* their new locations, the temporary file stays, and set returns the      *)
(* error.  Other I/O errors are not modelled.                              *)
(***************************************************************************)
SetFails(k, v) ==
    /\ log # "none"
    /\ steps < MaxSteps
    /\ k \in DOMAIN kvs
    /\ kvs[k].len # Len(EncodeSet(k, v))
    /\ \/ UNCHANGED <<kvs, swp, log_pos>>
       \/ \E order \in SortedOrders(kvs), turns \in 0..Cardinality(DOMAIN kvs) :
             LET st == RebuildLog(kvs, order, turns, swp, LogFile, log_pos,
                                  kvs[k].offset, EncodeSet(k, v))
             IN  /\ kvs' = st.kvs
                 /\ swp' = [exists |-> TRUE, bytes |-> st.new_file]
                 /\ log_pos' = st.pos
    /\ last' = Op("set", k, v, Failed, "compact")
    /\ run' = [x \in Keys |-> 0]
    /\ session_ok' = FALSE
    /\ reopens' = 0
    /\ steps' = steps + 1
    /\ before' = [x \in Keys |-> Visible(x)]
    /\ UNCHANGED <<log, log_off, disk, orphan, expect, removed, snap, carried>>

(***************************************************************************)
(* The store value goes out of use: its handle is released, and with it    *)
(* the last name of a replaced file.                                       *)
(***************************************************************************)
Close ==
    /\ log # "none"
    /\ kvs' = EmptyIndex
    /\ log' = "none"
    /\ log_off' = 0
    /\ log_pos' = 0
    /\ orphan' = <<>>
    /\ last' = Op("close", <<>>, <<>>, OkUnit, "-")
    /\ run' = [x \in Keys |-> 0]
    /\ removed' = [x \in Keys |-> FALSE]
    /\ before' = [x \in Keys |-> Visible(x)]
    /\ carried' = [ok |-> session_ok, vals |-> expect]
    /\ UNCHANGED <<disk, swp, expect, session_ok, snap, reopens, steps>>

(***************************************************************************)
(* open                                                                    *)
(***************************************************************************)
\* an open that truncates the log (OpenOptions truncate(true))
OpenFileTruncate(f) == <<>>

\* lines 238-242: OpenOptions create, read, write: the bytes of an existing
\* file are kept
OpenFile(f) == f

\* what open sees: its result, the index, and the value get returns per key
Snapshot(res, idx, f) ==
    [res |-> res, kvs |-> idx,
     vals |-> [k \in Keys |-> GetOutcome(idx, f, 0, k).res]]

Open ==
    /\ log = "none"
    /\ steps < MaxSteps
    /\ LET f == OpenFile(disk)
           r == Replay(f, 0, EmptyIndex)
       IN  /\ disk' = f
           /\ IF r.ok
              THEN /\ kvs' = r.kvs
                   /\ log' = "path"
                   /\ log_off' = r.offset
                   /\ log_pos' = Len(f)
                   /\ last' = Op("open", <<>>, <<>>, OkUnit, "-")
                   /\ snap' = Snapshot(OkUnit, r.kvs, f)
                   /\ session_ok' = TRUE
                   /\ expect' = [k \in Keys |-> GetOutcome(r.kvs, f, 0, k).res]
              ELSE /\ kvs' = EmptyIndex
                   /\ log' = "none"
                   /\ log_off' = 0
                   /\ log_pos' = 0
                   /\ last' = Op("open", <<>>, <<>>, Failed, "-")
                   /\ snap' = Snapshot(Failed, EmptyIndex, f)
                   /\ session_ok' = FALSE
                   /\ expect' = expect
    /\ orphan' = <<>>
    /\ reopens' = reopens + 1
    /\ steps' = steps + 1
    /\ before' = [x \in Keys |-> Failed]
    /\ UNCHANGED <<swp, run, removed, carried>>

(***************************************************************************)
(* The store just opened on an empty directory.                            *)
(***************************************************************************)
Init ==
    /\ kvs = EmptyIndex
    /\ log = "path"
    /\ log_off = 0
    /\ log_pos = 0
    /\ disk = <<>>
    /\ orphan = <<>>
    /\ swp = NoSwp
    /\ last = Op("open", <<>>, <<>>, OkUnit, "-")
    /\ expect = [k \in Keys |-> NotFound]
    /\ run = [k \in Keys |-> 0]
    /\ removed = [k \in Keys |-> FALSE]
    /\ session_ok = TRUE
    /\ snap = Snapshot(OkUnit, EmptyIndex, <<>>)
    /\ reopens = 1
    /\ before = [k \in Keys |-> Failed]
    /\ carried = [ok |-> TRUE, vals |-> [k \in Keys |-> NotFound]]
    /\ steps = 0

Next ==
    \/ \E k \in Keys, v \in Values : Set(k, v)
    \/ \E k \in Keys : Get(k)
    \/ \E k \in Keys : Remove(k)
    \/ Close
    \/ Open

Spec == Init /\ [][Next]_vars

\* the same operations, with compactions that may fail
NextIO ==
    \/ Next
    \/ \E k \in Keys, v \in Values : SetFails(k, v)

SpecIO == Init /\ [][NextIO]_vars

(***************************************************************************)
(* Recovery as a function of the log: open on a directory whose log holds  *)
(* any sequence of up to MaxRecords Set and Remove records.                *)
(***************************************************************************)
\* the commands a log holds
OptData ==
    {[tag |-> "Set", key |-> k, value |-> v] : k \in Keys, v \in Values}
      \cup {[tag |-> "Rm", key |-> k, value |-> <<>>] : k \in Keys}

Encode(c) ==
    IF c.tag = "Set" THEN EncodeSet(c.key, c.value) ELSE EncodeRm(c.key)

RecordLists == UNION {[1..n -> OptData] : n \in 0..MaxRecords}

RECURSIVE Concat(_, _)
Concat(recs, i) ==
    IF i > Len(recs) THEN <<>> ELSE Encode(recs[i]) \o Concat(recs, i + 1)

Logs == {Concat(recs, 1) : recs \in RecordLists}

InitReplay ==
    /\ disk \in Logs
    /\ kvs = EmptyIndex
    /\ log = "none"
    /\ log_off = 0
    /\ log_pos = 0
    /\ orphan = <<>>
    /\ swp = NoSwp
    /\ last = Op("close", <<>>, <<>>, OkUnit, "-")
    /\ expect = [k \in Keys |-> NotFound]
    /\ run = [k \in Keys |-> 0]
    /\ removed = [k \in Keys |-> FALSE]
    /\ session_ok = FALSE
    /\ snap = Snapshot(OkUnit, EmptyIndex, <<>>)
    /\ reopens = 0
    /\ before = [k \in Keys |-> Failed]
    /\ carried = [ok |-> FALSE, vals |-> [k \in Keys |-> NotFound]]
    /\ steps = 0

NextReplay == Open

SpecReplay == InitReplay /\ [][NextReplay]_vars

(***************************************************************************)
(* Properties.                                                             *)
(***************************************************************************)
\* the step is a call of op on key k
Did(op, k) == steps' = steps + 1 /\ last'.op = op /\ last'.key = k

\* the step is a call of open
DidOpen == steps' = steps + 1 /\ last'.op = "open"

RECURSIVE SumLen(_, _)
SumLen(idx, ks) ==
    IF ks = {} THEN 0
    ELSE LET k == CHOOSE x \in ks : TRUE
         IN  idx[k].len + SumLen(idx, ks \ {k})

\* the byte ranges of the entries of idx are pairwise disjoint
Disjoint(idx) ==
    \A k1, k2 \in DOMAIN idx :
        k1 # k2 => \/ idx[k1].offset + idx[k1].len <= idx[k2].offset
                   \/ idx[k2].offset + idx[k2].len <= idx[k1].offset

\* every entry of idx lies inside the file f
Inside(idx, f) == \A k \in DOMAIN idx : idx[k].offset + idx[k].len <= Len(f)

\* C1: in one session, after two or more set(k, .) calls in a row (of equal
\* or different record lengths) a get(k) returns the value of the last one.
C1_LastSetWins ==
    [][\A k \in Keys :
          (Did("get", k) /\ run[k] >= 2) => last'.res = expect[k]]_vars

\* C2: a successful set, get or remove of key k leaves what get returns for
\* every other key as it was.
C2_OtherKeysUntouched ==
    (/\ last.op \in {"set", "get", "remove"}
     /\ last.res.tag \in {"Ok", "Some", "None"})
    => \A k2 \in Keys \ {last.key} : Visible(k2) = before[k2]

\* C3: after a session whose set and remove calls all succeeded, reopening
\* the directory succeeds and get returns, for every key, the value of its
\* last set, or not-found when a remove came last.
C3_Persistence ==
    (last.op = "open" /\ carried.ok)
    => /\ last.res = OkUnit
       /\ \A k \in Keys : Visible(k) = carried.vals[k]

\* C4: once remove(k) has succeeded, get(k) returns not-found until the
\* next set(k, .) of the session.
C4_RemovedIsNotFound ==
    [][\A k \in Keys :
          (Did("get", k) /\ removed[k]) => last'.res = NotFound]_vars

\* a get of a key that was set and then removed has answered
C4_Witness ==
    /\ last.op = "get"
    /\ removed[last.key]
    /\ last.res = NotFound

\* C5: remove(k) fails with key-not-found exactly when k has no index
\* entry, and succeeds otherwise; k has no entry exactly when it was never
\* set or a remove came last (in the session, or in the log replayed at open).
C5_RemoveResult ==
    [][\A k \in Keys :
          Did("remove", k)
          => /\ last'.res = KeyNotFound <=> k \notin DOMAIN kvs
             /\ last'.res = OkUnit <=> k \in DOMAIN kvs
             /\ k \notin DOMAIN kvs <=> expect[k] = NotFound]_vars

\* a second remove of a key has failed with key-not-found
C5_Witness ==
    /\ last.op = "remove"
    /\ last.res = KeyNotFound
    /\ removed[last.key]

\* C6: after a compaction the file at the log path is exactly the live
\* records, contiguous from offset 0: the entries lie inside it, do not
\* overlap and their lengths add up to its size; the updated key's entry
\* holds the new encoding and every other entry the bytes of its old record.
C6_CompactedLayout ==
    [][\A k \in Keys, v \in Values :
          (Did("set", k) /\ last'.value = v /\ last'.path = "compact")
          => /\ Inside(kvs', disk')
             /\ Disjoint(kvs')
             /\ SumLen(kvs', DOMAIN kvs') = Len(disk')
             /\ ReadAt(disk', kvs'[k].offset, kvs'[k].len) = EncodeSet(k, v)
             /\ \A k2 \in DOMAIN kvs' \ {k} :
                   ReadAt(disk', kvs'[k2].offset, kvs'[k2].len)
                     = ReadAt(LogFile, kvs[k2].offset, kvs[k2].len)]_vars

\* C7: while a store is open every index entry ends inside the log, and no
\* two entries overlap.  (The log is taken to be whichever fits: the file at
\* the log path or the file the store's handle names.)
C7_LocationInvariant ==
    log # "none"
    => /\ Inside(kvs, disk) \/ Inside(kvs, LogFile)
       /\ Disjoint(kvs)

\* C8: open does not change the log, and an open that follows another with
\* no set or remove in between sees the same result, keys, locations and
\* values.
C8_IdempotentReopen ==
    [][DidOpen => /\ disk' = disk
                  /\ reopens >= 1 => snap' = snap]_vars

\* a non-empty log has been opened twice in a row
C8_Witness ==
    /\ last.op = "open"
    /\ reopens >= 2
    /\ kvs # EmptyIndex

C10_IndexMatchesLog ==
    log # "none"
    => \A k \in DOMAIN kvs :
          LET buf == ReadAt(LogFile, kvs[k].offset, kvs[k].len)
              d == Decode(buf)
          IN  /\ Len(buf) = kvs[k].len
              /\ d.tag = "Set"
              /\ d.key = k
              /\ k \in Keys => Found(d.value) = expect[k]

\* C11: remove(k) of a present key appends: the Remove record starts at the
\* end of the log, the bytes before it are unchanged and the log grows by
\* the record's length.
C11_RemoveAppends ==
    [][\A k \in Keys :
          (Did("remove", k) /\ k \in DOMAIN kvs)
          => LogFile' = LogFile \o EncodeRm(k)]_vars

\* C12: the file an open store reads and writes is always the file at the
\* log path, never one that a compaction's rename has replaced.
C12_HandleFollowsPath == log # "orphan"

\* C13: a remove(k) that fails with key-not-found writes nothing and leaves
\* the log, the write positions and the index as they were.
C13_FailedRemoveChangesNothing ==
    [][\A k \in Keys :
          (Did("remove", k) /\ last'.res = KeyNotFound)
          => UNCHANGED <<kvs, disk, orphan, log_off, log_pos>>]_vars

\* C14: set takes one of three paths.  A key with no entry: the record is
\* appended at the end of the log and indexed there.  A key whose entry has
\* the new record's length: the record is written at the entry's offset, the
\* entry keeps its offset, the log keeps its size and its other bytes.  The
\* compactor runs exactly when the key has an entry of another length.
C14_SetPaths ==
    [][\A k \in Keys, v \in Values :
          (Did("set", k) /\ last'.value = v)
          => LET data == EncodeSet(k, v)
                 had == k \in DOMAIN kvs
             IN  /\ ~had
                    => /\ LogFile' = LogFile \o data
                       /\ kvs'[k] = OffsetLen(Len(LogFile), Len(data))
                 /\ (had /\ kvs[k].len = Len(data))
                    => /\ kvs'[k].offset = kvs[k].offset
                       /\ Len(LogFile') = Len(LogFile)
                       /\ LogFile' = WriteAt(LogFile, kvs[k].offset, data)
                 /\ last'.path = "compact"
                    <=> (had /\ kvs[k].len # Len(data))]_vars

\* C15: a set whose compaction fails returns an error and leaves the file at
\* the log path and every index entry as they were before the call.
C15_FailedCompactionChangesNothing ==
    [][\A k \in Keys :
          (Did("set", k) /\ last'.res = Failed)
          => disk' = disk /\ kvs' = kvs]_vars

\* C17: between operations the directory holds no temporary compaction
\* file, after a compaction that succeeded as after one that failed.
C17_NoTemporaryFile == ~swp.exists

\* C19: while a store is open, log_off is the size of the log it writes to.
C19_LogOffIsSize == log # "none" => log_off = Len(LogFile)

\* C20: get changes neither the index, nor a byte of the log, nor the
\* positions at which the next record is written.
C20_GetChangesNothing ==
    [][\A k \in Keys :
          Did("get", k)
          => UNCHANGED <<kvs, disk, orphan, log_off, log_pos>>]_vars

\* C18: a get(k) that finds at k's location a record that decodes, and not
\* to a Set, reports an error: not not-found, and no value.
C18_NonSetIsCorrupt ==
    \A k \in Keys :
       (/\ last.op = "get"
        /\ last.key = k
        /\ k \in DOMAIN kvs
        /\ \E x \in Keys :
              ReadAt(LogFile, kvs[k].offset, kvs[k].len) = EncodeRm(x))
       => last.res = Failed

\* the commands whose records, one after the other, make up the bytes f
RECURSIVE RecordsOf(_)
RecordsOf(f) ==
    IF f = <<>> THEN <<>>
    ELSE LET c == CHOOSE x \in OptData :
                    /\ Len(Encode(x)) <= Len(f)
                    /\ SubSeq(f, 1, Len(Encode(x))) = Encode(x)
         IN  <<c>> \o RecordsOf(SubSeq(f, Len(Encode(c)) + 1, Len(f)))

\* the place of the last record about k, 0 if there is none
LastOf(recs, k) ==
    LET is == {i \in 1..Len(recs) : recs[i].key = k}
    IN  IF is = {} THEN 0 ELSE CHOOSE i \in is : \A j \in is : j <= i

\* the byte offset at which record i starts
RECURSIVE StartOf(_, _)
StartOf(recs, i) ==
    IF i <= 1 THEN 0 ELSE StartOf(recs, i - 1) + Len(Encode(recs[i - 1]))

\* C16: after open on a log of newline-terminated Set and Remove records,
\* open has succeeded, the index holds exactly the keys whose last record is
\* a Set, each at (the offset of that record, its length with the newline),
\* the offsets counting every earlier record, Remove records included, and
\* log_off is the sum of all record lengths; a Remove of a key that has no
\* entry changes nothing and is no error.
C16_ReplayBuildsIndex ==
    last.op = "open"
    => LET recs == RecordsOf(disk)
           live == {k \in Keys : /\ LastOf(recs, k) > 0
                                 /\ recs[LastOf(recs, k)].tag = "Set"}
       IN  /\ last.res = OkUnit
           /\ DOMAIN kvs = live
           /\ \A k \in live :
                 kvs[k] = OffsetLen(StartOf(recs, LastOf(recs, k)),
                                    Len(Encode(recs[LastOf(recs, k)])))
           /\ log_off = Len(disk)

\* open has replayed a Remove of a key with no entry, then a Set of that
\* key, then a Remove of another key with no entry
C16_Witness ==
    /\ last.op = "open"
    /\ \E k \in Keys, x \in Keys, v \in Values :
          /\ x # k
          /\ disk = EncodeRm(k) \o EncodeSet(k, v) \o EncodeRm(x)
          /\ DOMAIN kvs = {k}
          /\ kvs[k] = OffsetLen(Len(EncodeRm(k)), Len(EncodeSet(k, v)))
          /\ log_off = Len(disk)
=============================================================================
